---- MODULE Spec2Model ----
(***************************************************************************)
(* Model of the AWS Lambda programs of the learning platform:              *)
(*   Antwort_Validierung_Lambda.py  (answer validation),                   *)
(*   Frage_Generierung_Lambda.py    (question generation workflow),        *)
(*   PDF_Upload_Lambda.py           (upload of course material),           *)
(* and of the parameter validation of the chatbot edge function            *)
(* generate_questions_chatbot that invokes the generation Lambda.          *)
(* An entry point is called from "idle", the agents (oracle calls) answer  *)
(* nondeterministically, and the invocation ends in "done" with its        *)
(* outcome.  The upload Lambda may be invoked again after "done": its      *)
(* requests share the bucket and the knowledge store.  calls, prompts and reviews  *)
(* are logs: the agent runs made, the generator prompts built and the      *)
(* contents the reviewer handed back, in order.                            *)
(*                                                                         *)
(* Python strings are sequences of one-character strings so that lower(),  *)
(* startswith() and the substring test `in` are computed, not assumed.     *)
(* The element "ae" stands for the single character a-umlaut (U+00E4).     *)
(* Python values are records tagged by their type in field t.              *)
(***************************************************************************)
EXTENDS Integers, Sequences, FiniteSets, TLC

VARIABLES pc, entry, event, question_type, calls, stdout, validation_result,
          outcome,
          max_rounds, generator, q_type_label, num_qas, context, feedback,
          qa_pairs_resp, qa_pairs_json, round, prompts, questions, reviews,
          bucket, knowledge_base, files, put_ok, s3_file_urls, uploads

vars == <<pc, entry, event, question_type, calls, stdout, validation_result,
          outcome,
          max_rounds, generator, q_type_label, num_qas, context, feedback,
          qa_pairs_resp, qa_pairs_json, round, prompts, questions, reviews,
          bucket, knowledge_base, files, put_ok, s3_file_urls, uploads>>

\* the state of the upload Lambda and of the stores it writes
uploadVars == <<bucket, knowledge_base, files, put_ok, s3_file_urls, uploads>>

\* the state of the validation Lambda
valVars == <<question_type, calls, stdout, validation_result>>

genVars == <<max_rounds, generator, q_type_label, num_qas, context, feedback,
             qa_pairs_resp, qa_pairs_json, round, prompts, questions,
             reviews>>

-----------------------------------------------------------------------------
(* Bounds of the model *)

\* longest question list a generator answer carries
MaxBatchLen == 2
\* largest value of the class attribute MAX_ROUNDS the model explores
MaxRoundsBound == 3
\* largest anzahl_fragen a caller sends
MaxCount == 2
\* largest number of parts of one multipart upload
MaxParts == 2
\* largest number of upload requests in a row
MaxUploads == 2

-----------------------------------------------------------------------------
(* Python values *)

PyStr(s) == [t |-> "str", s |-> s]
PyInt(n) == [t |-> "int", n |-> n]
None == [t |-> "None"]
\* a key that the JSON object does not hold
Absent == [t |-> "absent"]

\* the string literals of the programs
VERSTAENDNISFRAGEN ==
    <<"V","e","r","s","t","ae","n","d","n","i","s","f","r","a","g","e","n">>
RECHENFRAGEN == <<"R","e","c","h","e","n","f","r","a","g","e","n">>
CONSENSUS_NOT_REACHED ==
    <<"C","o","n","s","e","n","s","u","s"," ","n","o","t"," ",
      "r","e","a","c","h","e","d">>
REVIEW_OK == <<"R","e","v","i","e","w"," ","O","K">>
VER == <<"v","e","r">>

\* str.__contains__: sub occurs in s as a contiguous slice
Contains(sub, s) ==
    \E i \in 0..(Len(s) - Len(sub)) : SubSeq(s, i + 1, i + Len(sub)) = sub

\* str.startswith
StartsWith(s, prefix) ==
    /\ Len(s) >= Len(prefix)
    /\ SubSeq(s, 1, Len(prefix)) = prefix

LowerChar(c) ==
    CASE c = "V" -> "v"
      [] c = "R" -> "r"
      [] c = "E" -> "e"
      [] c = "O" -> "o"
      [] c = "K" -> "k"
      [] c = "C" -> "c"
      [] OTHER -> c

\* str.lower
Lower(s) == [i \in 1..Len(s) |-> LowerChar(s[i])]

-----------------------------------------------------------------------------
(* Antwort_Validierung_Lambda.py *)

\* class QuestionTypeEnum(Enum): a plain Enum, its members are not strings
COMPREHENSION_QUESTION ==
    [t |-> "QuestionTypeEnum", name |-> "COMPREHENSION_QUESTION",
     value |-> VERSTAENDNISFRAGEN]
CALCULATION_QUESTION ==
    [t |-> "QuestionTypeEnum", name |-> "CALCULATION_QUESTION",
     value |-> RECHENFRAGEN]

\* class ValidationResult(BaseModel): is_correct: bool, reason: str
ValidationResult(is_correct, reason) ==
    [t |-> "ValidationResult", is_correct |-> is_correct, reason |-> reason]

\* Python ==: values of different types are unequal, Enum members compare
\* by identity
PyEq(a, b) == a = b

\* the branches of validate swapped
IsComprehensionMutInverted(qt) == ~PyEq(qt, COMPREHENSION_QUESTION)

\* validate, line 215: question_type == QuestionTypeEnum.COMPREHENSION_QUESTION
IsComprehension(qt) == PyEq(qt, COMPREHENSION_QUESTION)

\* the outcome of a call: a value, or an exception raised
Ok(v) == [ok |-> TRUE, value |-> v]
Raise(exc) == [ok |-> FALSE, exc |-> exc]

\* an entry of the log of agent runs: which agent ran, and whether its run
\* returned (ok) or raised
Call(agent, ok) == [agent |-> agent, ok |-> ok]

\* base64.b64decode of the raw body
B64Decode(raw) ==
    IF raw.enc = "b64" THEN Ok(raw.doc) ELSE Raise("binascii.Error")

\* json.loads of the decoded body: the text is a JSON document only when the
\* body was what the flag isBase64Encoded said and the document is valid
LoadBody(raw, viaB64) ==
    IF (viaB64 \/ raw.enc = "plain") /\ raw.doc.kind # "invalid"
    THEN Ok(raw.doc)
    ELSE Raise("JSONDecodeError")

\* dict.get(key, default) on the parsed body
Get(doc, key, default) ==
    IF doc[key] = Absent THEN default ELSE doc[key]

\* result.json(): the JSON text of a ValidationResult
ResultJson(result) ==
    [json |-> "object", is_correct |-> result.is_correct,
     reason |-> result.reason]

Response200(body) == [kind |-> "response", statusCode |-> 200, body |-> body]
\* json.dumps(f'Fehler: {str(e)}')
ValResponse500(exc) ==
    [kind |-> "response", statusCode |-> 500,
     body |-> [json |-> "string", text |-> <<"Fehler: ", exc>>]]
\* an exception that leaves the handler
Unhandled(exc) == [kind |-> "unhandled", exc |-> exc]
Returned(v) == [kind |-> "returned", value |-> v]
Raised(exc) == [kind |-> "raised", exc |-> exc]
NoOutcome == [kind |-> "none"]

\* lambda_handler, lines 181-183: executed before the try block
ValBodyDecoded(ev) ==
    IF ev.body = Absent THEN Raise("KeyError")
    ELSE IF ev.isBase64Encoded THEN B64Decode(ev.body)
    ELSE Ok(ev.body)

\* lambda_handler, lines 186-191: the request parsed inside the try block
ValParse(ev) ==
    LET loaded == LoadBody(ev.body, ev.isBase64Encoded)
    IN  IF ~loaded.ok THEN loaded
        ELSE IF loaded.value.kind # "object" THEN Raise("AttributeError")
        ELSE Ok(Get(loaded.value, "question_style", PyStr(<<>>)))

\* a handler that answers with a default verdict when it got none
ValResponseMutDefaultVerdict(res) ==
    IF res.ok /\ res.value.t = "ValidationResult"
    THEN Response200(ResultJson(res.value))
    ELSE Response200(ResultJson(ValidationResult(FALSE, <<>>)))

\* lambda_handler, lines 194-210: the response built from validate's result
ValResponse(res) ==
    IF ~res.ok THEN ValResponse500(res.exc)
    ELSE IF res.value.t = "ValidationResult"
    THEN Response200(ResultJson(res.value))
    ELSE ValResponse500("AttributeError")

\* validate, line 222: "Consensus not reached" not in validation_result
\* (a pydantic model iterates over (field, value) pairs, none equals a str)
ConsensusCheck(content) ==
    CASE content.t = "str" ->
           Ok(~Contains(CONSENSUS_NOT_REACHED, content.s))
      [] content.t = "ValidationResult" -> Ok(TRUE)
      [] OTHER -> Raise("TypeError")

\* a validate that hands a team without consensus on to the arbiter
AfterTeamMutFallback(check) ==
    IF check.ok /\ ~check.value THEN "v_arbiter" ELSE "done"

\* validate, lines 222-233: after the sentinel test of the team branch the
\* function goes to its return statement, whatever the test found
AfterTeam(check) == "done"

\* what the caller of validate gets
ValOutcome(ent, res) ==
    IF ent = "val_lambda" THEN ValResponse(res)
    ELSE IF res.ok THEN Returned(res.value) ELSE Raised(res.exc)

-----------------------------------------------------------------------------
(* Frage_Generierung_Lambda.py *)

\* class QAWorkflow: MAX_ROUNDS = 1
MAX_ROUNDS == 1
\* handle_request: payload.get("anzahl_fragen", 3)
DEFAULT_ANZAHL_FRAGEN == 3

\* class QuestionResponse(BaseModel): questions: List[Question]
QuestionResponse(qs) == [t |-> "QuestionResponse", questions |-> qs]
PyList(items) == [t |-> "list", items |-> items]
\* a dict with the single key "questions"
PyDict(v) == [t |-> "dict", questions |-> v]

\* json.dumps: the JSON text of a Python value
RECURSIVE Dumps(_)
Dumps(v) ==
    CASE v.t = "dict" -> [json |-> "object", questions |-> Dumps(v.questions)]
      [] v.t = "list" -> [json |-> "array", items |-> v.items]
      [] v.t = "str" -> [json |-> "string", text |-> v.s]
      [] OTHER -> [json |-> "null"]

\* json.loads: a JSON object is read back as a dict, never as a model
RECURSIVE Loads(_)
Loads(j) ==
    CASE j.json = "object" -> PyDict(Loads(j.questions))
      [] j.json = "array" -> PyList(j.items)
      [] j.json = "string" -> PyStr(j.text)
      [] OTHER -> None

\* BaseModel.model_dump_json of a QuestionResponse: the JSON object
\* {"questions": [...]}
ModelDumpJson(m) ==
    [json |-> "object", questions |-> Dumps(PyList(m.questions))]

\* QAWorkflow.run, lines 263-267
QaPairsJson(resp) ==
    IF resp.t = "QuestionResponse" THEN ModelDumpJson(resp) ELSE Dumps(resp)

\* a failure path that hands back the batch it has instead of the error
GenOutcomeOnErrorMutBestEffort(exc, json) ==
    IF json = None
    THEN [kind |-> "response", statusCode |-> 500,
          body |-> [json |-> "object", error |-> exc]]
    ELSE [kind |-> "response", statusCode |-> 200,
          body |-> Dumps(PyDict(Loads(json)))]

\* for _ in range(self.MAX_ROUNDS) running one round too many
LoopExhaustedMutOffByOne(rounds_done, limit) == rounds_done > limit

\* QAWorkflow.run, line 251: for _ in range(self.MAX_ROUNDS) has no round left
LoopExhausted(rounds_done, limit) == rounds_done >= limit

\* int(x) of handle_request, line 290
DigitValue(c) ==
    CASE c = "0" -> 0 [] c = "1" -> 1 [] c = "2" -> 2 [] c = "3" -> 3
      [] OTHER -> -1

PyIntOf(v) ==
    CASE v.t = "int" -> Ok(v.n)
      [] v.t = "str" ->
           IF Len(v.s) = 1 /\ DigitValue(v.s[1]) >= 0
           THEN Ok(DigitValue(v.s[1]))
           ELSE Raise("ValueError")
      [] OTHER -> Raise("TypeError")

\* a selection that compares the style as given, without lower()
SelectGeneratorMutNoLower(qt) ==
    IF qt.t # "str" THEN Raise("AttributeError")
    ELSE IF StartsWith(qt.s, VER)
    THEN Ok([generator |-> "Comprehension QA Generator",
             q_type_label |-> "Verstaendnisfrage"])
    ELSE Ok([generator |-> "Calculation QA Generator",
             q_type_label |-> "Rechenfrage"])

\* QAWorkflow.__init__, lines 241-243
SelectGenerator(qt) ==
    IF qt.t # "str" THEN Raise("AttributeError")
    ELSE IF StartsWith(Lower(qt.s), VER)
    THEN Ok([generator |-> "Comprehension QA Generator",
             q_type_label |-> "Verstaendnisfrage"])
    ELSE Ok([generator |-> "Calculation QA Generator",
             q_type_label |-> "Rechenfrage"])

\* lambda_handler, lines 312-315: body = event.get("body") or "{}", decoded
EmptyObject ==
    [kind |-> "object", fragetyp |-> Absent, anzahl_fragen |-> Absent]

GenPayload(ev) ==
    IF ev.body = Absent
    THEN (IF ev.isBase64Encoded THEN Raise("JSONDecodeError")
          ELSE Ok(EmptyObject))
    ELSE LET decoded == IF ev.isBase64Encoded THEN B64Decode(ev.body)
                        ELSE Ok(ev.body)
         IN  IF ~decoded.ok THEN decoded
             ELSE LoadBody(ev.body, ev.isBase64Encoded)

\* handle_request, lines 287-294: the parameters of the workflow
GenParams(ev) ==
    LET payload == GenPayload(ev)
    IN  IF ~payload.ok THEN payload
        ELSE IF payload.value.kind # "object" THEN Raise("AttributeError")
        ELSE LET n == PyIntOf(Get(payload.value, "anzahl_fragen",
                                  PyInt(DEFAULT_ANZAHL_FRAGEN)))
                 g == SelectGenerator(Get(payload.value, "fragetyp",
                                          PyStr(VERSTAENDNISFRAGEN)))
             IN  IF ~n.ok THEN n
                 ELSE IF ~g.ok THEN g
                 ELSE Ok([question_type |->
                              Get(payload.value, "fragetyp",
                                  PyStr(VERSTAENDNISFRAGEN)),
                          num_qas |-> n.value,
                          generator |-> g.value.generator,
                          q_type_label |-> g.value.q_type_label])

\* Python truth value of feedback in `if feedback:`
Truthy(v) == v.t = "str" /\ Len(v.s) > 0

\* a prompt built without the retrieved context
GenPromptMutNoContext(num, label, ctx, fb) ==
    [num |-> num, q_type |-> label, context |-> None,
     feedback |-> IF Truthy(fb) THEN fb ELSE None]

\* a prompt that never carries the previous feedback
GenPromptMutNoFeedback(num, label, ctx, fb) ==
    [num |-> num, q_type |-> label, context |-> ctx, feedback |-> None]

\* QAWorkflow.run, lines 252-260: what the generator prompt is built from
GenPrompt(num, label, ctx, fb) ==
    [num |-> num, q_type |-> label, context |-> ctx,
     feedback |-> IF Truthy(fb) THEN fb ELSE None]

\* an approval test that never approves
ReviewOkMutIgnored(fb) ==
    IF fb.t = "str" THEN Ok(FALSE) ELSE Raise("TypeError")

\* QAWorkflow.run, line 275: "Review OK" in feedback
ReviewOk(fb) ==
    IF fb.t = "str" THEN Ok(Contains(REVIEW_OK, fb.s)) ELSE Raise("TypeError")

\* a generator run that is repeated before the batch is reviewed
AfterGeneratorMutRetry(rounds_done, limit) ==
    IF rounds_done < limit THEN "g_generate" ELSE "g_review"

\* QAWorkflow.run, lines 262-273: in every iteration, whichever it is, the
\* statement that follows the generator run and its serialisation is the
\* reviewer run
AfterGenerator(rounds_done, limit) == "g_review"

\* handle_request, line 302
HandleRequestResult(qs) == PyDict(qs)

\* lambda_handler, lines 328-334
GenResponse500(exc) ==
    [kind |-> "response", statusCode |-> 500,
     body |-> [json |-> "object", error |-> exc]]

\* lambda_handler, lines 328-334: what an exception raised anywhere below
\* the handler becomes (json is the local qa_pairs_json at that moment)
GenOutcomeOnError(exc, json) == GenResponse500(exc)

\* lambda_handler, lines 317-327
GenResponse200(result) == Response200(Dumps(result))

-----------------------------------------------------------------------------
(* Supabase Edge Functions/generate_questions_chatbot.py *)

\* defaults.anzahl_fragen
EDGE_DEFAULT_ANZAHL_FRAGEN == 5
\* the range the edge function accepts for anzahl_fragen
EDGE_MIN_FRAGEN == 1
EDGE_MAX_FRAGEN == 20

\* JavaScript ToNumber of an extracted value: null is 0, a text that is no
\* numeral is NaN
JsToNumber(v) ==
    CASE v.t = "int" -> Ok(v.n)
      [] v.t = "str" ->
           IF Len(v.s) = 1 /\ DigitValue(v.s[1]) >= 0
           THEN Ok(DigitValue(v.s[1]))
           ELSE Raise("NaN")
      [] OTHER -> Ok(0)

\* line 117: anzahl_fragen < 1 || anzahl_fragen > 20 (false for NaN)
EdgeCountInvalid(v) ==
    LET x == JsToNumber(v)
    IN  x.ok /\ (x.value < EDGE_MIN_FRAGEN \/ x.value > EDGE_MAX_FRAGEN)

\* lines 97-120: the extracted parameters merged with the defaults and
\* validated
EdgeParams(extracted) ==
    LET merged ==
          [fragetyp |-> Get(extracted, "fragetyp", PyStr(VERSTAENDNISFRAGEN)),
           anzahl_fragen |-> Get(extracted, "anzahl_fragen",
                                 PyInt(EDGE_DEFAULT_ANZAHL_FRAGEN))]
    IN  [kind |-> "object",
         fragetyp |->
            IF merged.fragetyp \in {PyStr(VERSTAENDNISFRAGEN),
                                    PyStr(RECHENFRAGEN)}
            THEN merged.fragetyp ELSE PyStr(VERSTAENDNISFRAGEN),
         anzahl_fragen |->
            IF EdgeCountInvalid(merged.anzahl_fragen)
            THEN PyInt(EDGE_DEFAULT_ANZAHL_FRAGEN)
            ELSE merged.anzahl_fragen]

\* lines 121-125: the defaults are used when the extraction cannot be parsed
EdgeDefaults ==
    [kind |-> "object", fragetyp |-> PyStr(VERSTAENDNISFRAGEN),
     anzahl_fragen |-> PyInt(EDGE_DEFAULT_ANZAHL_FRAGEN)]

\* lines 129-135: the request the edge function sends to the Lambda
EdgeRequest(params) ==
    [body |-> [enc |-> "plain", doc |-> params], isBase64Encoded |-> FALSE,
     forwarded |-> TRUE]

-----------------------------------------------------------------------------
(* PDF_Upload_Lambda.py *)

\* lambda_handler, line 18
S3_BUCKET_BASE_URL == "https://tl-course-materials.s3.eu-central-1.amazonaws.com"

\* extract_files, lines 47-66: the filenames of the parts that carry one, in
\* the order of the parts; a body that is no multipart document raises
ExtractFiles(req) ==
    IF req.kind # "multipart" THEN Raise("ImproperBodyPartContentException")
    ELSE LET named == SelectSeq(req.parts, LAMBDA p : p.disposition = "file")
         IN  Ok([i \in DOMAIN named |-> named[i].filename])

\* the keys a list of filenames names
FileNamesOf(filenames) == {filenames[i] : i \in DOMAIN filenames}

\* a URL list that covers the first file only
S3FileUrlsMutFirstOnly(base, filenames) ==
    IF filenames = <<>> THEN <<>>
    ELSE <<[base |-> base, key |-> filenames[1]]>>

\* load_files_from_s3_to_knowledge_base, line 91: one URL per filename it
\* was given; main, line 70, gives it the filenames of the request
S3FileUrls(base, filenames) ==
    [i \in DOMAIN filenames |-> [base |-> base, key |-> filenames[i]]]

\* the objects of the bucket a URL list points at
UrlKeys(urls) == {urls[i].key : i \in DOMAIN urls}

\* lambda_handler, lines 26-34
UploadResponse200 ==
    Response200([json |-> "string",
                 text |-> <<"Dateien erfolgreich gespeichert.">>])

-----------------------------------------------------------------------------
(* Inputs *)

FileNames == {"a.pdf", "b.pdf"}

\* a part of a multipart body: a file with its filename, or a form field
Parts ==
    {[disposition |-> "file", filename |-> f] : f \in FileNames}
    \cup {[disposition |-> "field", filename |-> ""]}

UploadRequests ==
    {[kind |-> "malformed"]}
    \cup {[kind |-> "multipart", parts |-> ps] :
            ps \in UNION {[1..n -> Parts] : n \in 0..MaxParts}}

StyleStrings == {VERSTAENDNISFRAGEN, RECHENFRAGEN, <<>>}

ValDocs ==
    {[kind |-> "invalid"], [kind |-> "array"]}
    \cup {[kind |-> "object", question_style |-> qs] :
            qs \in {Absent} \cup {PyStr(s) : s \in StyleStrings}}

RawBodies(docs) == {[enc |-> e, doc |-> d] : e \in {"plain", "b64"}, d \in docs}

ValEvents ==
    {[body |-> b, isBase64Encoded |-> f] :
        b \in {Absent} \cup RawBodies(ValDocs), f \in BOOLEAN}

Reasons == {<<>>, <<"o","k">>, CONSENSUS_NOT_REACHED}

\* what an agent with response_model=ValidationResult can hand back as
\* content: the parsed model, the raw text when parsing failed, or nothing
ValContents ==
    {ValidationResult(c, r) : c \in BOOLEAN, r \in Reasons}
    \cup {PyStr(s) : s \in {CONSENSUS_NOT_REACHED, <<"?">>}}
    \cup {None}

GenStyleValues ==
    {Absent, PyStr(VERSTAENDNISFRAGEN), PyStr(RECHENFRAGEN),
     PyStr(<<"V","E","R","B">>), PyStr(<<"x","v","e","r">>),
     PyStr(<<"v","e">>), PyInt(1)}

CountValues ==
    {Absent, PyStr(<<"x">>)} \cup {PyInt(n) : n \in -1..MaxCount}

GenDocs ==
    {[kind |-> "invalid"], [kind |-> "array"]}
    \cup {[kind |-> "object", fragetyp |-> f, anzahl_fragen |-> a] :
            f \in GenStyleValues, a \in CountValues}

GenEvents ==
    {[body |-> b, isBase64Encoded |-> FALSE] :
        b \in {Absent} \cup {[enc |-> "plain", doc |-> d] : d \in GenDocs}}
    \cup {[body |-> b, isBase64Encoded |-> TRUE] :
            b \in {Absent, [enc |-> "plain", doc |-> EmptyObject],
                   [enc |-> "b64", doc |-> EmptyObject]}}

\* what the parameter extraction of the edge function yields: unparsable
\* text, or an object with some of the keys
EdgeExtractions ==
    {[kind |-> "invalid"]}
    \cup {[kind |-> "object", fragetyp |-> f, anzahl_fragen |-> a] :
            f \in {Absent, PyStr(RECHENFRAGEN), PyStr(<<"V","E","R","B">>)},
            a \in {Absent, None, PyStr(<<"x">>), PyInt(0), PyInt(1),
                   PyInt(EDGE_MAX_FRAGEN + 1)}}

Questions == {"q1", "q2"}
Batches == UNION {[1..n -> Questions] : n \in 0..MaxBatchLen}

\* content of a generator run: the parsed model, the raw text, or nothing
GenContents ==
    {QuestionResponse(b) : b \in Batches} \cup {PyStr(<<"r","a","w">>), None}

\* content of the Knowledge Retriever run
ContextContents == {PyStr(<<"c">>), None}

\* content of a Question Reviewer run
ReviewContents ==
    {PyStr(REVIEW_OK), PyStr(<<"f">> \o REVIEW_OK \o <<".">>),
     PyStr(<<"f">>), PyStr(<<"g">>), PyStr(<<>>), None}

AgentRuns(contents) == {Ok(c) : c \in contents} \cup {Raise("OracleError")}

-----------------------------------------------------------------------------
(* State machine *)

\* max_rounds is the value self.MAX_ROUNDS resolves to: the class attribute
\* MAX_ROUNDS, or a larger value a subclass or instance sets, so that rounds
\* after the first exist in the model
Init ==
    /\ pc = "idle"
    /\ entry = "none"
    /\ event = None
    /\ question_type = None
    /\ calls = <<>>
    /\ stdout = <<>>
    /\ validation_result = None
    /\ outcome = NoOutcome
    /\ max_rounds \in MAX_ROUNDS..MaxRoundsBound
    /\ generator = "none"
    /\ q_type_label = "none"
    /\ num_qas = None
    /\ context = None
    /\ feedback = None
    /\ qa_pairs_resp = None
    /\ qa_pairs_json = None
    /\ round = 0
    /\ prompts = <<>>
    /\ questions = None
    /\ reviews = <<>>
    /\ bucket = {}
    /\ knowledge_base = {}
    /\ files = <<>>
    /\ put_ok = {}
    /\ s3_file_urls = None
    /\ uploads = 0

\* validate is entered with question_type = qt
EnterValidate(qt) ==
    /\ question_type' = qt
    /\ pc' = IF IsComprehension(qt) THEN "v_team" ELSE "v_arbiter"
    /\ UNCHANGED <<calls, validation_result, outcome>>

\* lambda_handler of the validation Lambda up to the call of validate
ValLambdaHandler ==
    /\ pc = "idle"
    /\ \E ev \in ValEvents :
        /\ event' = ev
        /\ entry' = "val_lambda"
        /\ stdout' = Append(stdout, "Loading function")
        /\ LET decoded == ValBodyDecoded(ev)
               parsed == ValParse(ev)
           IN  IF ~decoded.ok
               THEN /\ outcome' = Unhandled(decoded.exc)
                    /\ pc' = "done"
                    /\ UNCHANGED <<question_type, calls, validation_result>>
               ELSE IF ~parsed.ok
               THEN /\ outcome' = ValResponse(parsed)
                    /\ pc' = "done"
                    /\ UNCHANGED <<question_type, calls, validation_result>>
               ELSE EnterValidate(parsed.value)
    /\ UNCHANGED genVars
    /\ UNCHANGED uploadVars

\* validate called as the function it is declared to be, with an enum member
ValidateCall ==
    /\ pc = "idle"
    /\ \E qt \in {COMPREHENSION_QUESTION, CALCULATION_QUESTION} :
        EnterValidate(qt)
    /\ entry' = "validate"
    /\ UNCHANGED <<event, stdout>>
    /\ UNCHANGED genVars
    /\ UNCHANGED uploadVars

\* validate, lines 216-223: agent_team.run(...).content and the sentinel test
TeamRun ==
    /\ pc = "v_team"
    /\ \E run \in AgentRuns(ValContents) :
        LET check == IF run.ok THEN ConsensusCheck(run.value) ELSE run
            res == IF run.ok /\ ~check.ok THEN check ELSE run
        IN  /\ calls' = Append(calls, Call("Evaluation Team", run.ok))
            /\ validation_result' = IF run.ok THEN run.value ELSE None
            /\ stdout' = IF check.ok /\ check.value
                         THEN Append(stdout, "Consensus reached.")
                         ELSE stdout
            /\ outcome' = ValOutcome(entry, res)
            /\ pc' = AfterTeam(check)
    /\ UNCHANGED <<entry, event, question_type>>
    /\ UNCHANGED genVars
    /\ UNCHANGED uploadVars

\* validate, lines 225-231: master_answer_validator.run(...).content
ArbiterRun ==
    /\ pc = "v_arbiter"
    /\ stdout' = Append(stdout, "Utilizing final answer validator...")
    /\ \E run \in AgentRuns(ValContents) :
        /\ calls' = Append(calls, Call("Final Answer Evaluator", run.ok))
        /\ validation_result' = IF run.ok THEN run.value ELSE None
        /\ outcome' = ValOutcome(entry, run)
    /\ pc' = "done"
    /\ UNCHANGED <<entry, event, question_type>>
    /\ UNCHANGED genVars
    /\ UNCHANGED uploadVars

\* the request ends with a 500 response
GenFail(exc) ==
    /\ outcome' = GenOutcomeOnError(exc, qa_pairs_json)
    /\ pc' = "done"

\* QAWorkflow.run returns the parsed batch; handle_request and lambda_handler
\* wrap it into the 200 response
GenReturn(json) ==
    /\ questions' = Loads(json)
    /\ outcome' = GenResponse200(HandleRequestResult(Loads(json)))
    /\ pc' = "done"

\* lambda_handler and handle_request of the generation Lambda up to wf.run,
\* for the event ev
GenHandle(ev) ==
    /\ event' = ev
    /\ LET params == GenParams(ev)
       IN  IF ~params.ok
           THEN /\ GenFail(params.exc)
                /\ UNCHANGED <<question_type, generator, q_type_label,
                               num_qas>>
           ELSE /\ question_type' = params.value.question_type
                /\ generator' = params.value.generator
                /\ q_type_label' = params.value.q_type_label
                /\ num_qas' = params.value.num_qas
                /\ outcome' = outcome
                /\ pc' = "g_retrieve"
    /\ entry' = "gen_lambda"
    /\ UNCHANGED <<calls, stdout, validation_result, max_rounds, context,
                   feedback, qa_pairs_resp, qa_pairs_json, round, prompts,
                   questions, reviews>>
    /\ UNCHANGED uploadVars

\* the generation Lambda invoked directly by a caller
GenLambdaHandler ==
    /\ pc = "idle"
    /\ \E ev \in GenEvents : GenHandle(ev)

\* the chatbot edge function extracts the parameters, validates them and
\* invokes the generation Lambda with them
EdgeServe ==
    /\ pc = "idle"
    /\ \E x \in EdgeExtractions :
        GenHandle(EdgeRequest(IF x.kind = "object" THEN EdgeParams(x)
                              ELSE EdgeDefaults))

\* QAWorkflow.run, lines 246-250: KNOWLEDGE_RETRIEVER.run(...).content
RetrieverRun ==
    /\ pc = "g_retrieve"
    /\ \E run \in AgentRuns(ContextContents) :
        /\ calls' = Append(calls, Call("Knowledge Retriever", run.ok))
        /\ IF ~run.ok
           THEN /\ GenFail(run.exc)
                /\ UNCHANGED context
           ELSE /\ context' = run.value
                /\ pc' = "g_generate"
                /\ outcome' = outcome
    /\ feedback' = None
    /\ UNCHANGED <<entry, event, question_type, stdout, validation_result,
                   max_rounds, generator, q_type_label, num_qas,
                   qa_pairs_resp, qa_pairs_json, round, prompts, questions,
                   reviews>>
    /\ UNCHANGED uploadVars

\* QAWorkflow.run, lines 251-267: one generator call of the loop
GeneratorRun ==
    /\ pc = "g_generate"
    /\ round' = round + 1
    /\ prompts' = Append(prompts,
                         GenPrompt(num_qas, q_type_label, context, feedback))
    /\ \E run \in AgentRuns(GenContents) :
        /\ calls' = Append(calls, Call(generator, run.ok))
        /\ IF ~run.ok
           THEN /\ GenFail(run.exc)
                /\ UNCHANGED <<qa_pairs_resp, qa_pairs_json>>
           ELSE /\ qa_pairs_resp' = run.value
                /\ qa_pairs_json' = QaPairsJson(run.value)
                /\ pc' = AfterGenerator(round + 1, max_rounds)
                /\ outcome' = outcome
    /\ UNCHANGED <<entry, event, question_type, stdout, validation_result,
                   max_rounds, generator, q_type_label, num_qas, context,
                   feedback, questions, reviews>>
    /\ UNCHANGED uploadVars

\* QAWorkflow.run, lines 269-278: the reviewer call, the approval test and
\* the end of the round
ReviewerRun ==
    /\ pc = "g_review"
    /\ \E run \in AgentRuns(ReviewContents) :
        /\ calls' = Append(calls, Call("Question Reviewer", run.ok))
        /\ IF ~run.ok
           THEN /\ GenFail(run.exc)
                /\ UNCHANGED <<feedback, questions, reviews>>
           ELSE /\ feedback' = run.value
                /\ reviews' = Append(reviews, run.value)
                /\ LET approved == ReviewOk(run.value)
                   IN  IF ~approved.ok
                       THEN /\ GenFail(approved.exc)
                            /\ UNCHANGED questions
                       ELSE IF approved.value
                               \/ LoopExhausted(round, max_rounds)
                       THEN GenReturn(qa_pairs_json)
                       ELSE /\ pc' = "g_generate"
                            /\ outcome' = outcome
                            /\ UNCHANGED questions
    /\ UNCHANGED <<entry, event, question_type, stdout, validation_result,
                   max_rounds, generator, q_type_label, num_qas, context,
                   qa_pairs_resp, qa_pairs_json, round, prompts>>
    /\ UNCHANGED uploadVars

\* lambda_handler of the upload Lambda up to asyncio.run(main(...)), lines
\* 22-24: extract_files
UploadLambdaHandler ==
    /\ \/ pc = "idle"
       \/ entry = "upload" /\ pc = "done" /\ uploads < MaxUploads
    /\ entry' = "upload"
    /\ uploads' = uploads + 1
    /\ put_ok' = {}
    /\ s3_file_urls' = None
    /\ \E req \in UploadRequests :
        /\ event' = req
        /\ LET extracted == ExtractFiles(req)
           IN  IF ~extracted.ok
               THEN /\ files' = <<>>
                    /\ outcome' = ValResponse500(extracted.exc)
                    /\ pc' = "done"
               ELSE /\ files' = extracted.value
                    /\ outcome' = NoOutcome
                    /\ pc' = "u_save"
    /\ UNCHANGED <<bucket, knowledge_base>>
    /\ UNCHANGED valVars
    /\ UNCHANGED genVars

\* save_files_to_s3, lines 72-86: the put_object tasks run concurrently and
\* gather raises when one of them does; which of the others completed by
\* then is not determined.  main goes on to the load only when all did.
SaveFilesToS3 ==
    /\ pc = "u_save"
    /\ \E done \in SUBSET DOMAIN files :
        /\ put_ok' = done
        /\ bucket' = bucket \cup {files[i] : i \in done}
        /\ IF done = DOMAIN files
           THEN /\ pc' = "u_load"
                /\ outcome' = outcome
           ELSE /\ pc' = "done"
                /\ outcome' = ValResponse500("ClientError")
    /\ UNCHANGED <<entry, event, knowledge_base, files, s3_file_urls, uploads>>
    /\ UNCHANGED valVars
    /\ UNCHANGED genVars

\* load_files_from_s3_to_knowledge_base, lines 88-107: aload with upsert of
\* the documents behind the URLs; it may raise after part of them
LoadFilesToKnowledgeBase ==
    /\ pc = "u_load"
    /\ s3_file_urls' = PyList(S3FileUrls(S3_BUCKET_BASE_URL, files))
    /\ \E loaded \in SUBSET UrlKeys(S3FileUrls(S3_BUCKET_BASE_URL, files)) :
        /\ knowledge_base' = knowledge_base \cup loaded
        /\ outcome' =
             IF loaded = UrlKeys(S3FileUrls(S3_BUCKET_BASE_URL, files))
             THEN UploadResponse200
             ELSE ValResponse500("OperationalError")
    /\ pc' = "done"
    /\ UNCHANGED <<entry, event, bucket, files, put_ok, uploads>>
    /\ UNCHANGED valVars
    /\ UNCHANGED genVars

Next ==
    \/ ValLambdaHandler
    \/ ValidateCall
    \/ TeamRun
    \/ ArbiterRun
    \/ GenLambdaHandler
    \/ EdgeServe
    \/ RetrieverRun
    \/ GeneratorRun
    \/ ReviewerRun
    \/ UploadLambdaHandler
    \/ SaveFilesToS3
    \/ LoadFilesToKnowledgeBase

Spec == Init /\ [][Next]_vars

-----------------------------------------------------------------------------
(* Helpers of the properties *)

\* the agent names that occur in the log of runs
AgentsRun == {calls[i].agent : i \in DOMAIN calls}
\* some agent run of the request raised
SomeRunRaised == \E i \in DOMAIN calls : ~calls[i].ok
LastCall == calls[Len(calls)]

ValDone == entry = "val_lambda" /\ pc = "done"
GenDone == entry = "gen_lambda" /\ pc = "done"
Status(code) == outcome.kind = "response" /\ outcome.statusCode = code

\* generate_questions_chatbot, lines 153-158: the question list a consumer of
\* the generation response finds, flat or nested
ResponseQuestions(body) ==
    IF body.questions.json = "array" THEN Ok(body.questions.items)
    ELSE IF body.questions.json = "object"
            /\ body.questions.questions.json = "array"
    THEN Ok(body.questions.questions.items)
    ELSE Raise("no questions")

-----------------------------------------------------------------------------
(* Properties *)

\* C1: a request handled by lambda_handler runs the Evaluation Team exactly
\* when its question_style is "Verständnisfragen", and the arbiter otherwise.
\* The code compares the str with an Enum member, so this is violated.
C1_StyleRoutesToTeam ==
    (entry = "val_lambda" /\ pc \in {"v_team", "v_arbiter"})
        => (pc = "v_team" <=> question_type = PyStr(VERSTAENDNISFRAGEN))

\* C2: a validation request of calculation style never runs the Evaluation
\* Team at any point, and the run validate makes is the arbiter's.
C2_CalculationUsesArbiterOnly ==
    (entry \in {"val_lambda", "validate"}
     /\ question_type \in {PyStr(RECHENFRAGEN), CALCULATION_QUESTION})
        => /\ "Evaluation Team" \notin AgentsRun
           /\ \/ pc = "v_arbiter" /\ calls = <<>>
              \/ /\ pc = "done"
                 /\ Len(calls) = 1
                 /\ calls[1].agent = "Final Answer Evaluator"

C2_Witness ==
    /\ ValDone
    /\ question_type = PyStr(RECHENFRAGEN)
    /\ calls = <<Call("Final Answer Evaluator", TRUE)>>
    /\ Status(200)

\* C3: the review loop never starts more than MAX_ROUNDS rounds, and when
\* the reviewer answered every round with text that does not approve, run
\* returns (the request is not an error) after round MAX_ROUNDS with the
\* batch the generator produced in that last round.
C3_LoopBoundedAndReturnsLastBatch ==
    /\ round <= max_rounds
    /\ Cardinality({i \in DOMAIN calls : calls[i].agent = generator}) = round
    /\ (/\ GenDone
        /\ ~SomeRunRaised
        /\ feedback.t = "str"
        /\ ~Contains(REVIEW_OK, feedback.s))
        => /\ round = max_rounds
           /\ Status(200)
           /\ qa_pairs_resp.t = "QuestionResponse"
                => questions = PyDict(PyList(qa_pairs_resp.questions))

C3_Witness ==
    /\ GenDone
    /\ max_rounds = MAX_ROUNDS
    /\ round = 1
    /\ feedback = PyStr(<<"f">>)
    /\ qa_pairs_resp.t = "QuestionResponse"
    /\ Len(qa_pairs_resp.questions) = 1
    /\ questions = PyDict(PyList(qa_pairs_resp.questions))
    /\ Status(200)

\* C4: a 200 response of the generation path carries a question list whose
\* length is the requested count num_qas.  Nothing in the code compares the
\* two, so this is violated.
C4_ReturnedBatchHasRequestedLength ==
    (GenDone /\ Status(200) /\ ResponseQuestions(outcome.body).ok)
        => Len(ResponseQuestions(outcome.body).value) = num_qas

\* C5: when the run of the retriever, of the generator or of the reviewer
\* raises in any round, or the reviewer hands back no text, the request ends
\* with a 500 error response and run has returned no batch.
C5_FailureAbortsWith500 ==
    (GenDone /\ (SomeRunRaised \/ (round >= 1 /\ feedback = None
                                   /\ LastCall.agent = "Question Reviewer")))
        => /\ Status(500)
           /\ outcome.body.json = "object"
           /\ "error" \in DOMAIN outcome.body
           /\ questions = None

C5_Witness ==
    /\ GenDone
    /\ max_rounds = MAX_ROUNDS
    /\ round = 1
    /\ qa_pairs_resp.t = "QuestionResponse"
    /\ Len(qa_pairs_resp.questions) > 0
    /\ LastCall = Call("Question Reviewer", FALSE)
    /\ Status(500)

\* C6: when the content the generator handed back last is not a
\* QuestionResponse, the request ends with an error response.  The code
\* serialises such content with json.dumps and returns it, so this is
\* violated.
C6_MalformedGeneratorOutputFails ==
    (GenDone /\ round >= 1 /\ qa_pairs_resp.t # "QuestionResponse")
        => Status(500)

\* C7: every invocation of the validation lambda_handler ends with a
\* response of status 200 or 500.  The body is read and decoded before the
\* try block, so this is violated.
C7_HandlerAlwaysResponds ==
    ValDone => (Status(200) \/ Status(500))

\* C8: when the agent run raised or its content is not a ValidationResult
\* the validation request ends with status 500, and a 200 response carries
\* exactly the is_correct and reason of the content the agent returned.
C8_NoFabricatedVerdict ==
    (ValDone /\ calls # <<>>)
        => /\ (~LastCall.ok \/ validation_result.t # "ValidationResult")
                => Status(500)
           /\ Status(200)
                => /\ LastCall.ok
                   /\ validation_result.t = "ValidationResult"
                   /\ outcome.body.is_correct = validation_result.is_correct
                   /\ outcome.body.reason = validation_result.reason

C8_Witness ==
    /\ ValDone
    /\ calls # <<>>
    /\ LastCall = Call("Final Answer Evaluator", TRUE)
    /\ validation_result.t = "str"
    /\ Status(500)

\* C9: a generation request ends with status 200 or with status 500 and an
\* error, and in a 200 response that carries the generator's QuestionResponse
\* the "questions" key of the body holds the sequence of questions itself.
\* run returns the dict {"questions": [...]} and handle_request wraps it once
\* more, so this is violated.
C9_QuestionsKeyHoldsSequence ==
    GenDone
        => /\ Status(200) \/ (Status(500) /\ "error" \in DOMAIN outcome.body)
           /\ (Status(200) /\ qa_pairs_resp.t = "QuestionResponse")
                => /\ outcome.body.questions.json = "array"
                   /\ outcome.body.questions.items = qa_pairs_resp.questions

\* C11: a ValidationResult handed to the caller with is_correct = false has
\* a non-empty reason, whichever agent produced it.  The model class allows
\* any str as reason and no statement of validate or lambda_handler looks
\* at it, so this is violated.
C11_IncorrectVerdictHasReason ==
    /\ (ValDone /\ Status(200) /\ ~outcome.body.is_correct)
         => outcome.body.reason # <<>>
    /\ (entry = "validate" /\ pc = "done" /\ outcome.kind = "returned"
        /\ outcome.value.t = "ValidationResult"
        /\ ~outcome.value.is_correct)
         => outcome.value.reason # <<>>

\* the two outcomes a reviewer response may have
IsApproved(fb) == fb = PyStr(REVIEW_OK)
IsFeedback(fb) == fb.t = "str" /\ Len(fb.s) > 0 /\ ~Contains(REVIEW_OK, fb.s)

\* C12: a reviewer response that is neither the sentinel "Review OK" nor
\* improvement notes free of it (notes that contain the sentinel, an empty
\* text, no text at all) ends the request with an error.  The code tests
\* `"Review OK" in feedback`, so notes containing the sentinel count as
\* approval and an empty text counts as feedback: this is violated.
C12_OtherReviewerResponseIsError ==
    (GenDone /\ calls # <<>> /\ LastCall = Call("Question Reviewer", TRUE)
     /\ ~IsApproved(feedback) /\ ~IsFeedback(feedback))
        => Status(500)

\* the workflow was entered: wf.run was called with num_qas
RunEntered ==
    /\ entry = "gen_lambda"
    /\ pc \in {"g_retrieve", "g_generate", "g_review"} \/ calls # <<>>

\* C13: the count that reaches QAWorkflow.run lies in 1..20, for requests
\* sent to the Lambda directly and for requests forwarded by the edge
\* function.  handle_request passes int(anzahl_fragen) on as it is, so this
\* is violated by a direct request.
C13_CountInRange ==
    RunEntered => num_qas \in EDGE_MIN_FRAGEN..EDGE_MAX_FRAGEN

\* the part of C13 that the code does keep: the edge function replaces a
\* count outside 1..20 by its default before it invokes the Lambda
C13_ForwardedCountInRange ==
    (RunEntered /\ "forwarded" \in DOMAIN event)
        => num_qas \in EDGE_MIN_FRAGEN..EDGE_MAX_FRAGEN

\* validate was entered
ValidateEntered ==
    entry \in {"val_lambda", "validate"} /\ question_type # None

\* the content signals that the team reached no consensus
SignalsNoConsensus(content) ==
    \/ content.t = "str" /\ Contains(CONSENSUS_NOT_REACHED, content.s)
    \/ /\ content.t = "ValidationResult"
       /\ Contains(CONSENSUS_NOT_REACHED, content.reason)

\* C14: one validate call makes exactly one agent run, the team's or the
\* arbiter's; after a team result that signals "Consensus not reached" no
\* arbiter run follows and validate returns that result as it is.
C14_ExactlyOneAgentRun ==
    ValidateEntered
        => /\ Len(calls) = IF pc = "done" THEN 1 ELSE 0
           /\ pc \in {"v_team", "v_arbiter", "done"}
           /\ (pc = "done" /\ calls[1] = Call("Evaluation Team", TRUE)
               /\ SignalsNoConsensus(validation_result))
                => (entry = "validate"
                        => outcome = Returned(validation_result))

C14_Witness ==
    /\ entry = "validate"
    /\ pc = "done"
    /\ calls = <<Call("Evaluation Team", TRUE)>>
    /\ validation_result = PyStr(CONSENSUS_NOT_REACHED)
    /\ outcome = Returned(PyStr(CONSENSUS_NOT_REACHED))

\* the positions of the log at which the agent ran
RunsOf(agent) == {i \in DOMAIN calls : calls[i].agent = agent}

ReviewerApproved ==
    /\ RunEntered
    /\ calls # <<>>
    /\ LastCall = Call("Question Reviewer", TRUE)
    /\ feedback.t = "str"
    /\ Contains(REVIEW_OK, feedback.s)

\* C16: when the reviewer approves in round k, run returns at once with the
\* batch the generator produced in round k: the request is over with a 200
\* response, the approval is the last agent run of the log, exactly k
\* generator runs and k reviewer runs were made, and the returned value is
\* the content of the generator run of round k.
C16_ApprovalReturnsBatchAtOnce ==
    ReviewerApproved
        => /\ pc = "done"
           /\ Status(200)
           /\ round <= max_rounds
           /\ Len(calls) = 1 + 2 * round
           /\ Len(prompts) = round
           /\ Len(reviews) = round
           /\ calls[Len(calls) - 1] = Call(generator, TRUE)
           /\ questions = IF qa_pairs_resp.t = "QuestionResponse"
                          THEN PyDict(PyList(qa_pairs_resp.questions))
                          ELSE qa_pairs_resp

C16_Witness ==
    /\ ReviewerApproved
    /\ pc = "done"
    /\ round = 2
    /\ max_rounds = 3
    /\ reviews = <<PyStr(<<"f">>), PyStr(REVIEW_OK)>>
    /\ qa_pairs_resp = QuestionResponse(<<"q2">>)
    /\ questions = PyDict(PyList(<<"q2">>))
    /\ Status(200)

\* C17: the generator prompt of round 1 carries no review feedback, and the
\* prompt of every round k >= 2 carries the text the reviewer handed back in
\* round k-1 and nothing of earlier rounds (an empty text adds nothing to
\* the prompt).
C17_PromptCarriesPreviousFeedback ==
    RunEntered
        => /\ prompts # <<>> => prompts[1].feedback = None
           /\ \A k \in DOMAIN prompts :
                k >= 2 => /\ k - 1 \in DOMAIN reviews
                          /\ reviews[k - 1].t = "str"
                          /\ prompts[k].feedback =
                                IF reviews[k - 1].s = <<>> THEN None
                                ELSE reviews[k - 1]

C17_Witness ==
    /\ RunEntered
    /\ Len(prompts) = 3
    /\ reviews[1] = PyStr(<<"f">>)
    /\ reviews[2] = PyStr(<<"g">>)
    /\ prompts[1].feedback = None
    /\ prompts[2].feedback = PyStr(<<"f">>)
    /\ prompts[3].feedback = PyStr(<<"g">>)

\* C18: the agent runs of one request are the retriever's, then the
\* generator's and the reviewer's in turn, one of each per round; no run
\* follows a run that raised (nothing is retried); and a request that ends
\* with a 200 response made as many reviewer runs as generator runs, the
\* final round included.
C18_CallsAlternateInOrder ==
    RunEntered
        => /\ \A i \in DOMAIN calls :
                calls[i].agent = IF i = 1 THEN "Knowledge Retriever"
                                 ELSE IF i % 2 = 0 THEN generator
                                 ELSE "Question Reviewer"
           /\ \A i \in DOMAIN calls : i < Len(calls) => calls[i].ok
           /\ Len(calls) \in {2 * round, 2 * round + 1}
           /\ (pc = "done" /\ Status(200))
                => /\ round >= 1
                   /\ Cardinality(RunsOf(generator)) = round
                   /\ Cardinality(RunsOf("Question Reviewer")) = round

C18_Witness ==
    /\ GenDone
    /\ Status(200)
    /\ round = 2
    /\ max_rounds = 2
    /\ calls = <<Call("Knowledge Retriever", TRUE), Call(generator, TRUE),
                 Call("Question Reviewer", TRUE), Call(generator, TRUE),
                 Call("Question Reviewer", TRUE)>>

\* the style begins with "ver" in any mix of upper and lower case
HasVerPrefix(s) ==
    /\ Len(s) >= 3
    /\ s[1] \in {"v", "V"}
    /\ s[2] \in {"e", "E"}
    /\ s[3] \in {"r", "R"}

IndexingTriggered == entry = "upload" /\ s3_file_urls # None

\* C20 as claimed: indexing is triggered only after every file of the
\* request was stored, and it covers all objects of the bucket.  The URL
\* list is built from the filenames of the request alone, so this is
\* violated once the bucket holds an object of an earlier request.
C20_IndexingCoversFullStorage ==
    IndexingTriggered
        => /\ put_ok = DOMAIN files
           /\ FileNamesOf(files) \subseteq bucket
           /\ UrlKeys(s3_file_urls.items) = bucket

\* C20 as amended: indexing is triggered only after every file of the
\* request was stored (a request with a failed store ends with status 500
\* and no indexing), and it covers exactly the files of the current
\* request, whatever else the bucket holds.
C20_IndexingCoversRequestFiles ==
    /\ IndexingTriggered
        => /\ put_ok = DOMAIN files
           /\ FileNamesOf(files) \subseteq bucket
           /\ UrlKeys(s3_file_urls.items) = FileNamesOf(files)
           /\ Len(s3_file_urls.items) = Len(files)
    /\ (entry = "upload" /\ pc = "done" /\ put_ok # DOMAIN files)
        => s3_file_urls = None /\ Status(500)

C20_Witness ==
    /\ IndexingTriggered
    /\ pc = "done"
    /\ uploads = 2
    /\ files = <<"b.pdf">>
    /\ bucket = {"a.pdf", "b.pdf"}
    /\ UrlKeys(s3_file_urls.items) = {"b.pdf"}
    /\ Status(200)
====
